---- MODULE Spec2Model ----
(***************************************************************************)
(* Model of src/usb/src/Riscv.rs: the RISC-V register catalog of the GDB   *)
(* bridge (RiscvCpu::make_registers), the target description rendered      *)
(* from it (RiscvCpu::make_target_xml) and the feature-file dispatch       *)
(* (RiscvCpu::get_feature, RiscvCpu::get_threads).                         *)
(*                                                                         *)
(* A document (a Rust String / Vec<u8>) is a sequence of tokens, one per   *)
(* lexical piece of the text the code writes: literal text keeps its exact *)
(* characters in `text`; a <feature> or <reg> line produced by format!     *)
(* keeps the values substituted into it as fields.  Two documents are the  *)
(* same bytes when they are the same token sequence.                       *)
(***************************************************************************)
EXTENDS Integers, Sequences, FiniteSets, TLC

VARIABLES
    pc,          \* "new": before construction; "render": catalog given, not rendered; "ready"
    registers,   \* RiscvCpu.registers
    target_xml,  \* RiscvCpu.target_xml
    result,      \* what the last operation returned
    log          \* the calls made on the CPU so far, oldest first

vars == <<pc, registers, target_xml, result, log>>

-----------------------------------------------------------------------------
(* Bounds of the model *)

\* number of get_feature / get_threads calls followed on one CPU
MaxCalls == 3
\* number of CSR entries of the catalog whose present flag is set
MaxPresent == 1
\* length of the free-form catalogs handed to make_target_xml
MaxLen == 2

\* filenames a client asks get_feature for
FileNames == {"target.xml", "threads", "bogus.xml", ""}

-----------------------------------------------------------------------------
(* RiscvRegisterType *)

General == "General"
CSR == "CSR"

feature_name(ft) ==
    IF ft = General THEN "org.gnu.gdb.riscv.cpu" ELSE "org.gnu.gdb.riscv.csr"

group(ft) ==
    IF ft = General THEN "general" ELSE "csr"

-----------------------------------------------------------------------------
(* RiscvRegister *)

general(index, name) ==
    [register_type |-> General, index |-> index, name |-> name, present |-> TRUE]

csr(index, name, present) ==
    [register_type |-> CSR, index |-> index, name |-> name, present |-> present]

-----------------------------------------------------------------------------
(* Results and errors *)

Ok(v) == [tag |-> "Ok", value |-> v]
Err(e) == [tag |-> "Err", value |-> e]
UnrecognizedFile(name) == [kind |-> "UnrecognizedFile", file |-> name]

-----------------------------------------------------------------------------
(* Tokens of a document *)

\* literal markup that is no element (the XML declaration, the doctype)
Text(s) == [kind |-> "text", text |-> s]
\* a run of whitespace, character for character
Ws(s) == [kind |-> "ws", text |-> s]
\* an opening tag written as literal text
Open(tag_, s) == [kind |-> "open", tag |-> tag_, text |-> s]
\* a closing tag "</tag>"
Close(tag_) == [kind |-> "close", tag |-> tag_]
\* format!("<feature name=\"{}\">", name)
FeatureOpen(name) == [kind |-> "open", tag |-> "feature", name |-> name]
\* format!("<reg name=\"{}\" bitsize=\"32\" regnum=\"{}\" save-restore=\"no\"
\*          type=\"int\" group=\"{}\"/>", name, regnum, group): an integer is
\* formatted in decimal
RegElement(name, regnum, grp) ==
    [kind |-> "reg", name |-> name, bitsize |-> "32", regnum |-> ToString(regnum),
     save_restore |-> "no", type |-> "int", group |-> grp]

THREADS_XML ==
    << Text("<?xml version=\"1.0\"?>"), Ws("\n"),
       Open("threads", "<threads>"), Ws("\n"),
       Close("threads") >>

-----------------------------------------------------------------------------
(* RiscvCpu::make_registers *)

\* for n in lo..hi { push(csr(base + n, format!("<prefix>{}<suffix>", n), false)) }
\* (the Rust range lo..hi excludes hi)
csr_range(base, prefix, suffix, lo, hi) ==
    [i \in 1..(hi - lo) |->
        csr(base + (lo + i - 1), prefix \o ToString(lo + i - 1) \o suffix, FALSE)]

\* general_registers with the loop one short: x0 to x30, then the program counter
general_registers_short ==
    [i \in 1..31 |-> general(i - 1, "x" \o ToString(i - 1))]
    \o << general(32, "pc") >>

\* x0 to x31, then the program counter
general_registers ==
    [i \in 1..32 |-> general(i - 1, "x" \o ToString(i - 1))]
    \o << general(32, "pc") >>

csr_registers ==
    << >>
    \* User trap setup
    \o << csr(\h000, "ustatus", FALSE),
          csr(\h004, "uie", FALSE),
          csr(\h005, "utvec", FALSE) >>
    \* User trap handling
    \o << csr(\h040, "uscratch", FALSE),
          csr(\h041, "uepc", FALSE),
          csr(\h042, "ucause", FALSE),
          csr(\h043, "utval", FALSE),
          csr(\h044, "uip", FALSE) >>
    \* User counter/timers
    \o << csr(\hc00, "cycle", FALSE),
          csr(\hc01, "time", FALSE),
          csr(\hc02, "instret", FALSE) >>
    \o csr_range(\hc00, "hpmcounter", "", 3, 32)
    \o << csr(\hc80, "cycleh", FALSE),
          csr(\hc81, "timeh", FALSE),
          csr(\hc82, "instreth", FALSE) >>
    \o csr_range(\hc80, "hpmcounter", "h", 3, 32)
    \* Supervisor Trap Setup
    \o << csr(\h100, "sstatus", FALSE),
          csr(\h102, "sedeleg", FALSE),
          csr(\h103, "sideleg", FALSE),
          csr(\h104, "sie", FALSE),
          csr(\h105, "stvec", FALSE),
          csr(\h106, "scounteren", FALSE) >>
    \* Supervisor Trap Handling
    \o << csr(\h140, "sscratch", FALSE),
          csr(\h141, "sepc", FALSE),
          csr(\h142, "scause", FALSE),
          csr(\h143, "stval", FALSE),
          csr(\h144, "sip", FALSE) >>
    \* Supervisor protection and translation
    \o << csr(\h180, "satp", FALSE) >>
    \* Machine information registers
    \o << csr(\hf11, "mvendorid", FALSE),
          csr(\hf12, "marchid", FALSE),
          csr(\hf13, "mimpid", FALSE),
          csr(\hf14, "mhartid", FALSE) >>
    \* Machine trap setup
    \o << csr(\h300, "mstatus", FALSE),
          csr(\h301, "misa", FALSE),
          csr(\h302, "medeleg", FALSE),
          csr(\h303, "mideleg", FALSE),
          csr(\h304, "mie", FALSE),
          csr(\h305, "mtvec", FALSE),
          csr(\h306, "mcounteren", FALSE) >>
    \* Machine trap handling
    \o << csr(\h340, "mscratch", FALSE),
          csr(\h341, "mepc", FALSE),
          csr(\h342, "mcause", FALSE),
          csr(\h343, "mtval", FALSE),
          csr(\h344, "mip", FALSE) >>
    \* Machine protection and translation
    \o << csr(\h3a0, "mpmcfg0", FALSE),
          csr(\h3a1, "mpmcfg1", FALSE),
          csr(\h3a2, "mpmcfg2", FALSE),
          csr(\h3a3, "mpmcfg3", FALSE) >>
    \o csr_range(\h3b0, "pmpaddr", "", 0, 16)
    \* Machine counter/timers
    \o << csr(\hb00, "mcycle", FALSE),
          csr(\hb02, "minstret", FALSE) >>
    \o csr_range(\hb00, "mhpmcounter", "", 3, 32)
    \o << csr(\hb80, "mcycleh", FALSE),
          csr(\hb82, "minstreth", FALSE) >>
    \o csr_range(\hb80, "mhpmcounter", "h", 3, 32)
    \* Machine counter setup
    \o csr_range(\h320, "mhpmevent", "", 3, 32)
    \* Debug/trace registers
    \o << csr(\h7a0, "tselect", FALSE),
          csr(\h7a1, "tdata1", FALSE),
          csr(\h7a2, "tdata2", FALSE),
          csr(\h7a3, "tdata3", FALSE) >>
    \* Debug mode registers
    \o << csr(\h7b0, "dcsr", FALSE),
          csr(\h7b1, "dpc", FALSE),
          csr(\h7b2, "dscratch", FALSE) >>

make_registers == general_registers \o csr_registers

-----------------------------------------------------------------------------
(* RiscvCpu::make_target_xml *)

\* the raw string literal the document starts from: inside r#"..."# a backslash
\* is a character of the text, and the text begins with the line break and the
\* indentation that follow the opening quote
target_xml_head ==
    << Ws("\n            "),
       Text("<?xml version=\\\"1.0\\\"?>"),
       Ws("\n                "),
       Text("<!DOCTYPE target SYSTEM \"gdb-target.dtd\">"),
       Ws("\n                "),
       Open("target", "<target version=\"1.0\">"),
       Ws("\n        ") >>

\* the inner loop: one <reg> line per register of the catalog, in catalog
\* order, that is present and of type ft
feature_regs(regs, ft) ==
    LET kept == SelectSeq(regs, LAMBDA reg :
                    ~ (~ reg.present \/ reg.register_type # ft))
    IN  [i \in 1..Len(kept) |->
            RegElement(kept[i].name, kept[i].index, group(kept[i].register_type))]

RECURSIVE SeqJoin(_)
\* every token of a sequence followed by the line break its push_str ends with
SeqJoin(toks) ==
    IF toks = << >> THEN << >>
    ELSE << Head(toks), Ws("\n") >> \o SeqJoin(Tail(toks))

\* one pass of the outer loop: the feature's opening line, then its registers
feature_pass(regs, ft) ==
    SeqJoin(<< FeatureOpen(feature_name(ft)) >> \o feature_regs(regs, ft))

make_target_xml(regs) ==
    target_xml_head
    \o feature_pass(regs, General)
    \o feature_pass(regs, CSR)
    \o << Close("feature"), Ws("\n") >>
    \o << Close("target"), Ws("\n") >>

-----------------------------------------------------------------------------
(* RiscvCpu::new, get_feature, get_threads *)

\* new with the document rendered before the catalog is filled in
new_renders_empty ==
    LET regs == make_registers
        xml == make_target_xml(<< >>)
    IN  Ok([registers |-> regs, target_xml |-> xml])

new ==
    LET regs == make_registers
        xml == make_target_xml(regs)
    IN  Ok([registers |-> regs, target_xml |-> xml])

\* get_feature that also serves the threads document
get_feature_with_threads(self, name) ==
    IF name = "target.xml"
    THEN Ok(self.target_xml)
    ELSE IF name = "threads"
    THEN Ok(THREADS_XML)
    ELSE Err(UnrecognizedFile(name))

\* get_feature whose error does not carry the requested filename
get_feature_drops_name(self, name) ==
    IF name = "target.xml"
    THEN Ok(self.target_xml)
    ELSE Err(UnrecognizedFile(""))

get_feature(self, name) ==
    IF name = "target.xml"
    THEN Ok(self.target_xml)
    ELSE Err(UnrecognizedFile(name))

get_threads(self) == Ok(THREADS_XML)

-----------------------------------------------------------------------------
(* The CPU as the RSP layer uses it *)

NoResult == [tag |-> "None", value |-> << >>]

self == [registers |-> registers, target_xml |-> target_xml]

Init ==
    /\ pc = "new"
    /\ registers = << >>
    /\ target_xml = << >>
    /\ result = NoResult
    /\ log = << >>

New ==
    /\ pc = "new"
    /\ result' = new
    /\ registers' = new.value.registers
    /\ target_xml' = new.value.target_xml
    /\ pc' = "ready"
    /\ UNCHANGED log

GetFeature(name) ==
    /\ pc = "ready"
    /\ Len(log) < MaxCalls
    /\ result' = get_feature(self, name)
    /\ log' = Append(log, [op |-> "get_feature", name |-> name])
    /\ UNCHANGED <<pc, registers, target_xml>>

GetThreads ==
    /\ pc = "ready"
    /\ Len(log) < MaxCalls
    /\ result' = get_threads(self)
    /\ log' = Append(log, [op |-> "get_threads", name |-> ""])
    /\ UNCHANGED <<pc, registers, target_xml>>

Next ==
    \/ New
    \/ \E name \in FileNames : GetFeature(name)
    \/ GetThreads

Spec == Init /\ [][Next]_vars

-----------------------------------------------------------------------------
(* make_target_xml as a function of the catalog it is given *)

RECURSIVE PickUpTo(_, _)
\* the subsets of S of at most k elements
PickUpTo(S, k) ==
    IF k = 0 THEN {{}}
    ELSE LET prev == PickUpTo(S, k - 1)
         IN  prev \cup {P \cup {x} : P \in prev, x \in S}

\* make_registers() with the present flag set on the entries at positions P
WithPresent(P) ==
    [i \in 1..Len(make_registers) |->
        IF i \in P THEN [make_registers[i] EXCEPT !.present = TRUE]
        ELSE make_registers[i]]

CsrPositions == {i \in 1..Len(make_registers) : make_registers[i].register_type = CSR}

\* the built catalog under the assignments of present flags to its CSR entries
BuiltCatalogs == {WithPresent(P) : P \in PickUpTo(CsrPositions, MaxPresent)}

SampleRegisters ==
    { general(0, "x0"), general(1, "x1") }
    \cup { csr(\h000, "ustatus", p) : p \in BOOLEAN }
    \cup { csr(\h300, "mstatus", p) : p \in BOOLEAN }

\* any short sequence of registers
FreeCatalogs == UNION {[1..n -> SampleRegisters] : n \in 0..MaxLen}

InitCatalog ==
    /\ pc = "render"
    /\ registers \in BuiltCatalogs \cup FreeCatalogs
    /\ target_xml = << >>
    /\ result = NoResult
    /\ log = << >>

\* RiscvCpu::new from the catalog on: the document is rendered and cached
Render ==
    /\ pc = "render"
    /\ target_xml' = make_target_xml(registers)
    /\ result' = Ok([registers |-> registers, target_xml |-> target_xml'])
    /\ pc' = "ready"
    /\ UNCHANGED <<registers, log>>

NextCatalog ==
    \/ Render
    \/ \E name \in FileNames : GetFeature(name)
    \/ GetThreads

SpecCatalog == InitCatalog /\ [][NextCatalog]_vars

-----------------------------------------------------------------------------
(* Reading a document back *)

\* how many positions of a sequence satisfy Test
Count(seq, Test(_)) == Cardinality({i \in 1..Len(seq) : Test(seq[i])})

IsReg(t) == t.kind = "reg"
IsOpenOf(t, tag_) == t.kind = "open" /\ t.tag = tag_
IsCloseOf(t, tag_) == t.kind = "close" /\ t.tag = tag_

\* the <reg> elements of a document, in document order
RegsOf(doc) == SelectSeq(doc, IsReg)

\* the markup of a document: everything but whitespace
MarkupOf(doc) == SelectSeq(doc, LAMBDA t : t.kind # "ws")

\* how many elements named tag_ are open where token i stands
OpenAt(doc, i, tag_) ==
    Cardinality({j \in 1..(i - 1) : IsOpenOf(doc[j], tag_)})
    - Cardinality({j \in 1..(i - 1) : IsCloseOf(doc[j], tag_)})

RECURSIVE Nested(_, _, _)
\* the tokens from i on nest as target > feature > reg, given the elements
\* open so far (outermost first), and leave nothing open
Nested(doc, i, open) ==
    IF i > Len(doc) THEN open = << >>
    ELSE LET t == doc[i]
         IN  CASE t.kind = "open" ->
                    /\ (t.tag = "target" => open = << >>)
                    /\ (t.tag = "feature" => open = << "target" >>)
                    /\ Nested(doc, i + 1, Append(open, t.tag))
               [] t.kind = "close" ->
                    /\ open # << >>
                    /\ open[Len(open)] = t.tag
                    /\ Nested(doc, i + 1, SubSeq(open, 1, Len(open) - 1))
               [] t.kind = "reg" ->
                    /\ open = << "target", "feature" >>
                    /\ Nested(doc, i + 1, open)
               [] OTHER -> Nested(doc, i + 1, open)

\* the last call made on the CPU
LastCall == log[Len(log)]
LastWas(op, name) == log # << >> /\ LastCall = [op |-> op, name |-> name]

-----------------------------------------------------------------------------
(* C1 *)

\* every register of the catalog has as many <reg> elements of its name and
\* group as the catalog has present entries of that name and type, and the
\* document has no other <reg> element
RegPerPresentRegister(regs, doc) ==
    /\ \A i \in 1..Len(regs) :
          Count(doc, LAMBDA t : IsReg(t) /\ t.name = regs[i].name
                                /\ t.group = group(regs[i].register_type))
          = Count(regs, LAMBDA r : r.present /\ r.name = regs[i].name
                                   /\ r.register_type = regs[i].register_type)
    /\ Len(RegsOf(doc)) = Count(regs, LAMBDA r : r.present)

\* every <reg> element stands inside exactly one <feature> element
OneEnclosingFeature(doc) ==
    \A i \in 1..Len(doc) : IsReg(doc[i]) => OpenAt(doc, i, "feature") = 1

\* C1: for every catalog handed to make_target_xml, the document holds exactly
\* one <reg> element per present register, none for a register that is not
\* present, and no <reg> element lies under more than one <feature> element.
C1_OneRegPerPresentRegister ==
    pc = "ready" =>
        /\ RegPerPresentRegister(registers, target_xml)
        /\ OneEnclosingFeature(target_xml)

-----------------------------------------------------------------------------
(* C2 *)

FeatureNamesOf(doc) ==
    LET opens == SelectSeq(doc, LAMBDA t : IsOpenOf(t, "feature"))
    IN  [i \in 1..Len(opens) |-> opens[i].name]

\* C2: every <feature> element the document opens is closed: the features are
\* those of General and ControlStatus in that order, there are as many
\* </feature> as <feature ...> tags, and the elements nest as
\* target > feature > reg with </target> closing the document.
C2_FeaturesClosedAndNested ==
    pc = "ready" =>
        /\ FeatureNamesOf(target_xml) = << feature_name(General), feature_name(CSR) >>
        /\ Count(target_xml, LAMBDA t : IsOpenOf(t, "feature"))
           = Count(target_xml, LAMBDA t : IsCloseOf(t, "feature"))
        /\ Nested(target_xml, 1, << >>)

-----------------------------------------------------------------------------
(* C3 *)

\* C3 as stated: get_feature("threads") succeeds with the bytes of THREADS_XML,
\* the bytes get_threads returns.
C3_GetFeatureThreadsOk ==
    LastWas("get_feature", "threads") =>
        /\ result = Ok(THREADS_XML)
        /\ result = get_threads(self)

\* C3, amended: get_feature("threads") fails with UnrecognizedFile("threads");
\* the threads document is what get_threads returns, and it is the fixed
\* declaration-plus-empty-<threads> text.
C3_ThreadsOnlyFromGetThreads ==
    /\ LastWas("get_feature", "threads") =>
          result = Err(UnrecognizedFile("threads"))
    /\ LastWas("get_threads", "") =>
          /\ result.tag = "Ok"
          /\ MarkupOf(result.value)
             = << Text("<?xml version=\"1.0\"?>"), Open("threads", "<threads>"),
                  Close("threads") >>

C3_Witness ==
    /\ LastWas("get_feature", "threads")
    /\ \E i \in 1..Len(log) : log[i].op = "get_threads"

-----------------------------------------------------------------------------
(* C4 *)

\* C4: on a CPU built by new(), after any calls of get_feature and
\* get_threads, the catalog is the built one, the cached document is
\* make_target_xml of it, and get_feature("target.xml") returns Ok of exactly
\* that document.
C4_TargetXmlIsRenderedCatalog ==
    pc = "ready" =>
        /\ registers = make_registers
        /\ target_xml = make_target_xml(registers)
        /\ LastWas("get_feature", "target.xml") =>
              result = Ok(make_target_xml(registers))

C4_Witness ==
    /\ Len(log) = MaxCalls
    /\ LastWas("get_feature", "target.xml")
    /\ log[1].op = "get_threads"
    /\ log[2] = [op |-> "get_feature", name |-> "bogus.xml"]
    /\ result.tag = "Ok"
    /\ Len(RegsOf(result.value)) = 33

-----------------------------------------------------------------------------
(* C5 *)

\* C5: a filename get_feature does not recognize is answered with
\* UnrecognizedFile carrying that filename; the catalog and the cached document
\* stay what new() made them; and no operation returns any other error.
C5_UnrecognizedFileOnly ==
    /\ \A name \in FileNames \ {"target.xml"} :
          LastWas("get_feature", name) => result = Err(UnrecognizedFile(name))
    /\ result.tag = "Err" =>
          /\ log # << >>
          /\ LastCall.op = "get_feature"
          /\ LastCall.name # "target.xml"
          /\ result.value = UnrecognizedFile(LastCall.name)
    /\ pc = "ready" =>
          /\ registers = new.value.registers
          /\ target_xml = new.value.target_xml

C5_Witness ==
    /\ LastWas("get_feature", "bogus.xml")
    /\ result = Err([kind |-> "UnrecognizedFile", file |-> "bogus.xml"])
    /\ Len(log) > 1

-----------------------------------------------------------------------------
(* C6 *)

XNames ==
    << "x0", "x1", "x2", "x3", "x4", "x5", "x6", "x7",
       "x8", "x9", "x10", "x11", "x12", "x13", "x14", "x15",
       "x16", "x17", "x18", "x19", "x20", "x21", "x22", "x23",
       "x24", "x25", "x26", "x27", "x28", "x29", "x30", "x31" >>

\* C6: the catalog starts with the 33 General registers x0..x31 (index = the
\* register number) and pc (index 32), all present, and holds no other
\* General register.
C6_ThirtyThreeGeneralFirst ==
    pc = "ready" =>
        /\ Count(registers, LAMBDA r : r.register_type = General) = 33
        /\ Len(registers) >= 33
        /\ \A i \in 1..32 :
              registers[i] = [register_type |-> General, index |-> i - 1,
                              name |-> XNames[i], present |-> TRUE]
        /\ registers[33] = [register_type |-> General, index |-> 32,
                            name |-> "pc", present |-> TRUE]
        /\ \A i \in 34..Len(registers) : registers[i].register_type # General

C6_Witness ==
    /\ pc = "ready"
    /\ Len(registers) > 33
    /\ registers[33].name = "pc"
    /\ registers[34].register_type = CSR

-----------------------------------------------------------------------------
(* C7 *)

HasCsr(regs, index, name) ==
    \E i \in 1..Len(regs) :
        /\ regs[i].register_type = CSR
        /\ regs[i].index = index
        /\ regs[i].name = name

PmpCfgNames == << "pmpcfg0", "pmpcfg1", "pmpcfg2", "pmpcfg3" >>

PmpAddrNames ==
    << "pmpaddr0", "pmpaddr1", "pmpaddr2", "pmpaddr3",
       "pmpaddr4", "pmpaddr5", "pmpaddr6", "pmpaddr7",
       "pmpaddr8", "pmpaddr9", "pmpaddr10", "pmpaddr11",
       "pmpaddr12", "pmpaddr13", "pmpaddr14", "pmpaddr15" >>

\* C7: the built catalog holds satp at 0x180, pmpaddrN at 0x3b0+N for N in
\* 0..15 and pmpcfgN at 0x3a0+N for N in 0..3.
C7_ProtectionCsrsNamed ==
    pc = "ready" =>
        /\ HasCsr(registers, \h180, "satp")
        /\ \A n \in 0..15 : HasCsr(registers, \h3b0 + n, PmpAddrNames[n + 1])
        /\ \A n \in 0..3 : HasCsr(registers, \h3a0 + n, PmpCfgNames[n + 1])

-----------------------------------------------------------------------------
(* C8 *)

\* C8: the document's first characters are the XML declaration
\* <?xml version="1.0"?>, and its markup goes on with the doctype and the
\* <target version="1.0"> opening tag before any <feature>.
C8_StartsWithXmlDeclaration ==
    pc = "ready" =>
        /\ target_xml[1] = Text("<?xml version=\"1.0\"?>")
        /\ SubSeq(MarkupOf(target_xml), 1, 3)
           = << Text("<?xml version=\"1.0\"?>"),
                Text("<!DOCTYPE target SYSTEM \"gdb-target.dtd\">"),
                Open("target", "<target version=\"1.0\">") >>
        /\ MarkupOf(target_xml)[4] = FeatureOpen("org.gnu.gdb.riscv.cpu")

-----------------------------------------------------------------------------
(* C9 *)

\* C9: every present CSR register is emitted with regnum = its CSR index + 65.
C9_CsrRegnumOffset65 ==
    pc = "ready" =>
        \A i \in 1..Len(registers) :
            (registers[i].present /\ registers[i].register_type = CSR) =>
                /\ \E t \in 1..Len(target_xml) :
                      /\ IsReg(target_xml[t])
                      /\ target_xml[t].name = registers[i].name
                      /\ target_xml[t].group = "csr"
                /\ \A t \in 1..Len(target_xml) :
                      (/\ IsReg(target_xml[t])
                       /\ target_xml[t].name = registers[i].name
                       /\ target_xml[t].group = "csr")
                      => target_xml[t].regnum = ToString(registers[i].index + 65)

-----------------------------------------------------------------------------
(* C10 *)

\* C10: for the built catalog under any assignment of present flags to its CSR
\* entries, no two <reg> elements of the document share a regnum and no two
\* share a name.
C10_RegnumsAndNamesUnique ==
    (pc = "ready" /\ registers \in BuiltCatalogs) =>
        LET regs == RegsOf(target_xml)
        IN  \A i, j \in 1..Len(regs) :
                i # j => /\ regs[i].regnum # regs[j].regnum
                         /\ regs[i].name # regs[j].name

====
